---- MODULE Spec2Model ----
(***************************************************************************)
(* mackup/application.py: ApplicationProfile.backup, restore, uninstall    *)
(* over a small filesystem of tracked paths.                               *)
(*                                                                         *)
(* A path is <<root, name>>: root "home" (under $HOME), "mackup" (under    *)
(* the mackup folder) or "other" (a place outside both, the target of a    *)
(* link to somewhere else).  A node is absent, a regular file, a           *)
(* directory, a symbolic link, or a special node (fifo, socket, device).   *)
(* The content of a file or directory is the path it was first stored at.  *)
(* The log holds what a run prints with verbose on, the answers it gets    *)
(* from utils.confirm and the calls of utils.delete, copy and link it      *)
(* makes; a method is split at these calls, one action for each.           *)
(***************************************************************************)
EXTENDS Naturals, Sequences, FiniteSets

\* the longest session of calls on one profile (SpecSeq)
MaxRuns == 2

\* app["configuration_files"], in the order the set is iterated
configuration_files == <<"a", "b">>

Names == {configuration_files[k] : k \in 1..Len(configuration_files)}

HomePath(n) == <<"home", n>>
MackupPath(n) == <<"mackup", n>>
Elsewhere == <<"other", "x">>
NoPath == <<"none", "">>
LoopPath == <<"loop", "">>

Paths == {HomePath(n) : n \in Names} \cup {MackupPath(n) : n \in Names} \cup {Elsewhere}

Absent == [kind |-> "absent", content |-> NoPath, target |-> NoPath]
File(c) == [kind |-> "file", content |-> c, target |-> NoPath]
Dir(c) == [kind |-> "dir", content |-> c, target |-> NoPath]
Symlink(t) == [kind |-> "link", content |-> NoPath, target |-> t]
Special == [kind |-> "special", content |-> NoPath, target |-> NoPath]

VARIABLES
    fs,             \* the filesystem: Paths -> node
    mackupInHome,   \* whether the mackup folder lies under $HOME
    syncable,       \* answers of the platform-support predicate so far
    dry_run,        \* self.dry_run
    strategy,       \* self.strategy
    enable_glob,    \* self.app["enable_glob"]
    op,             \* the method running or last run
    files,          \* the list get_files() returned to the running method
    i,              \* index in files of the entry the loop is at
    pc,             \* position of the running method
    log,            \* what the current run printed, asked and did
    fsStart,        \* the filesystem when the current run started
    runs,           \* calls made so far
    prev            \* the previous call: its method, the entries it acted on,
                    \* the filesystem it started from, whether home was
                    \* replaced by a fresh one since

vars == <<fs, mackupInHome, syncable, dry_run, strategy, enable_glob, op, files, i,
          pc, log, fsStart, runs, prev>>

config == <<mackupInHome, dry_run, strategy, enable_glob>>

----------------------------------------------------------------------------
(* pathlib and os.path on the filesystem f *)

RECURSIVE ResolveFrom(_, _, _)
ResolveFrom(f, p, fuel) ==
    IF p \notin Paths THEN p
    ELSE IF f[p].kind # "link" THEN p
    ELSE IF fuel = 0 THEN LoopPath
    ELSE ResolveFrom(f, f[p].target, fuel - 1)

\* Path.resolve(): follows links; a missing last component is kept as it is
Resolve(f, p) == ResolveFrom(f, p, Cardinality(Paths))

NodeAt(f, p) == IF p \in Paths THEN f[p] ELSE Absent

\* the node a path leads to, links followed (os.stat)
Stat(f, p) == NodeAt(f, Resolve(f, p))

isfile(f, p) == Stat(f, p).kind = "file"
isdir(f, p) == Stat(f, p).kind = "dir"
exists(f, p) == Stat(f, p).kind \in {"file", "dir", "special"}
islink(f, p) == NodeAt(f, p).kind = "link"
lexists(f, p) == NodeAt(f, p).kind # "absent"
samefile(f, p, q) == Resolve(f, p) = Resolve(f, q)

\* the content a path leads to, NoPath when there is none
ContentAt(f, p) == Stat(f, p).content

----------------------------------------------------------------------------
(* utils: copy, delete, link (spec section 4.5) *)

\* copy(src, dst) fails loudly when src is no file or directory
CopyFails(f, src, dst) == ~(isfile(f, src) \/ isdir(f, src)) \/ dst \notin Paths

Copy(f, src, dst) ==
    [f EXCEPT ![dst] = [kind |-> Stat(f, src).kind,
                        content |-> Stat(f, src).content,
                        target |-> NoPath]]

\* delete(path) removes the node at path, a link itself and never its target
Delete(f, p) == IF p \in Paths THEN [f EXCEPT ![p] = Absent] ELSE f

\* link(target, linkPath) fails if linkPath already exists
LinkFails(f, target, linkPath) == lexists(f, linkPath) \/ linkPath \notin Paths

Link(f, target, linkPath) == [f EXCEPT ![linkPath] = Symlink(target)]

----------------------------------------------------------------------------
(* ApplicationProfile.get_files *)

Root(kind, n) == IF kind = "home" THEN HomePath(n) ELSE MackupPath(n)

\* source.glob(file_path): the pattern matches what exists under source
Globbed(f, source) ==
    SelectSeq(configuration_files, LAMBDA n : exists(f, Root(source, n)))

get_files(f, source, target) ==
    LET names == IF enable_glob THEN Globbed(f, source) ELSE configuration_files
    IN  [k \in 1..Len(names) |->
            [src |-> Resolve(f, Root(source, names[k])),
             dst |-> Resolve(f, Root(target, names[k])),
             name |-> names[k]]]

\* Path.resolve() raises on a symlink loop
ResolveRaises(f, source, target) ==
    \E k \in 1..Len(get_files(f, source, target)) :
        LoopPath \in {get_files(f, source, target)[k].src,
                      get_files(f, source, target)[k].dst}

Event(ev, n, p, q) == [ev |-> ev, name |-> n, p |-> p, q |-> q]

\* a line printed about entry e, or the answer to the question asked about it
Say(ev, e) == <<Event(ev, e.name, e.src, e.dst)>>

\* a call of utils.delete, utils.copy or utils.link made for entry e
Did(ev, e, p, q) == <<Event(ev, e.name, p, q)>>

Resting == pc \in {"ready", "done", "aborted", "fresh"}

\* the entries whose file action the run that wrote l carried out to its end
Acted(method, l) ==
    LET last == IF method = "uninstall" \/ strategy = "copy" THEN "copy" ELSE "link"
    IN  {l[k].name : k \in {j \in 1..Len(l) : l[j].ev = last}}

StartRun(method, source, target) ==
    /\ Resting
    /\ runs < MaxRuns
    /\ runs' = runs + 1
    /\ prev' = [op |-> op, acted |-> Acted(op, log), fs |-> fsStart,
                fresh |-> (pc = "fresh")]
    /\ op' = method
    /\ fsStart' = fs
    /\ i' = 1
    /\ IF ResolveRaises(fs, source, target)
       THEN /\ files' = <<>>
            /\ log' = <<Event("raise", "", NoPath, NoPath)>>
            /\ pc' = "aborted"
       ELSE /\ files' = get_files(fs, source, target)
            /\ log' = <<>>
            /\ pc' = "loop"
    /\ UNCHANGED <<fs, syncable, config>>

AtEntry(method, where) == op = method /\ pc = where /\ i <= Len(files)

Continue(events) ==
    /\ log' = log \o events
    /\ i' = i + 1
    /\ pc' = "loop"

Goto(where, events) ==
    /\ log' = log \o events
    /\ pc' = where
    /\ UNCHANGED i

Raise(e, events) ==
    /\ log' = log \o events \o Say("raise", e)
    /\ pc' = "aborted"
    /\ UNCHANGED i

Frame == UNCHANGED <<syncable, config, op, files, fsStart, runs, prev>>

ValidStrategy == strategy \in {"link", "copy"}

----------------------------------------------------------------------------
(* ApplicationProfile.backup *)

\* "If the file exists and is not already a link pointing to Mackup"
BackupNeeded(f, home, mackup) ==
    /\ isfile(f, home) \/ isdir(f, home)
    /\ ~(/\ islink(f, home)
         /\ isfile(f, mackup) \/ isdir(f, mackup)
         /\ samefile(f, home, mackup))

\* file_type that takes whatever is no file and no folder for a link
file_type_lenient(f, p) ==
    IF isfile(f, p) THEN "file"
    ELSE IF isdir(f, p) THEN "folder"
    ELSE "link"

\* the name of the node in the way, "" for one that has none
file_type(f, p) ==
    IF isfile(f, p) THEN "file"
    ELSE IF isdir(f, p) THEN "folder"
    ELSE IF islink(f, p) THEN "link"
    ELSE ""

\* BackupStep without the "if self.dry_run: continue"
BackupStepNoDryRun(f, home, mackup) ==
    IF ~BackupNeeded(f, home, mackup) THEN "nothing"
    ELSE IF exists(f, mackup)
         THEN IF file_type(f, mackup) = "" THEN "raise" ELSE "confirm"
    ELSE "backup_file"

\* BackupStep with the dry-run test ahead of the test of the entry
BackupStepDryFirst(f, home, mackup) ==
    IF dry_run THEN "dry"
    ELSE IF ~BackupNeeded(f, home, mackup) THEN "nothing"
    ELSE IF exists(f, mackup)
         THEN IF file_type(f, mackup) = "" THEN "raise" ELSE "confirm"
    ELSE "backup_file"

\* where backup() goes with one entry
BackupStep(f, home, mackup) ==
    IF ~BackupNeeded(f, home, mackup) THEN "nothing"
    ELSE IF dry_run THEN "dry"
    ELSE IF exists(f, mackup)
         THEN IF file_type(f, mackup) = "" THEN "raise" ELSE "confirm"
    ELSE "backup_file"

\* the "Doing nothing" message for a path that is left alone
Nothing(f, p) ==
    IF exists(f, p) THEN "already"
    ELSE IF islink(f, p) THEN "broken"
    ELSE "absent"

backup == StartRun("backup", "home", "mackup")

backup_entry ==
    /\ AtEntry("backup", "loop")
    /\ LET e == files[i]
           step == BackupStep(fs, e.src, e.dst)
       IN  CASE step = "nothing" -> Continue(Say(Nothing(fs, e.src), e))
             [] step = "dry" -> Continue(Say("acting", e))
             [] step = "raise" -> Raise(e, Say("acting", e))
             [] step = "confirm" -> Goto("confirm", Say("acting", e))
             [] step = "backup_file" ->
                    IF ValidStrategy THEN Goto("copy", Say("acting", e))
                    ELSE Raise(e, Say("acting", e))
    /\ UNCHANGED fs
    /\ Frame

\* backup_confirm that replaces the backup whatever the answer
backup_confirm_ignored(yes) ==
    /\ AtEntry("backup", "confirm")
    /\ Goto("delete", Say(IF yes THEN "yes" ELSE "no", files[i]))
    /\ UNCHANGED fs
    /\ Frame

\* backup_confirm that takes a declined confirmation for an error
backup_confirm_decline_raises(yes) ==
    /\ AtEntry("backup", "confirm")
    /\ IF yes THEN Goto("delete", Say("yes", files[i]))
       ELSE Raise(files[i], Say("no", files[i]))
    /\ UNCHANGED fs
    /\ Frame

\* utils.confirm(...) and the branch on its answer
backup_confirm(yes) ==
    /\ AtEntry("backup", "confirm")
    /\ IF yes THEN Goto("delete", Say("yes", files[i]))
       ELSE Continue(Say("no", files[i]))
    /\ UNCHANGED fs
    /\ Frame

\* utils.delete(mackup_filepath), then the call of backup_file
backup_delete ==
    /\ AtEntry("backup", "delete")
    /\ fs' = Delete(fs, files[i].dst)
    /\ LET e == files[i]
       IN  IF ValidStrategy THEN Goto("copy", Did("delete", e, e.dst, NoPath))
           ELSE Raise(e, Did("delete", e, e.dst, NoPath))
    /\ Frame

\* backup_file that goes on to delete and link under every strategy
backup_file_copy_then_link ==
    /\ AtEntry("backup", "copy")
    /\ LET e == files[i]
       IN  IF CopyFails(fs, e.src, e.dst)
           THEN Raise(e, <<>>) /\ UNCHANGED fs
           ELSE /\ fs' = Copy(fs, e.src, e.dst)
                /\ Goto("unlink", Did("copy", e, e.src, e.dst))
    /\ Frame

\* backup_file: utils.copy(home_filepath, mackup_filepath)
backup_file_copy ==
    /\ AtEntry("backup", "copy")
    /\ LET e == files[i]
       IN  IF CopyFails(fs, e.src, e.dst)
           THEN Raise(e, <<>>) /\ UNCHANGED fs
           ELSE /\ fs' = Copy(fs, e.src, e.dst)
                /\ IF strategy = "link"
                   THEN Goto("unlink", Did("copy", e, e.src, e.dst))
                   ELSE Continue(Did("copy", e, e.src, e.dst))
    /\ Frame

\* backup_file: utils.delete(home_filepath)
backup_file_delete ==
    /\ AtEntry("backup", "unlink")
    /\ fs' = Delete(fs, files[i].src)
    /\ Goto("link", Did("delete", files[i], files[i].src, NoPath))
    /\ Frame

\* backup_file that forgets to link home to the backup
backup_file_no_link ==
    /\ AtEntry("backup", "link")
    /\ Continue(Did("link", files[i], files[i].dst, files[i].src))
    /\ UNCHANGED fs
    /\ Frame

\* backup_file: utils.link(mackup_filepath, home_filepath)
backup_file_link ==
    /\ AtEntry("backup", "link")
    /\ LET e == files[i]
       IN  IF LinkFails(fs, e.dst, e.src)
           THEN Raise(e, <<>>) /\ UNCHANGED fs
           ELSE /\ fs' = Link(fs, e.dst, e.src)
                /\ Continue(Did("link", e, e.dst, e.src))
    /\ Frame

----------------------------------------------------------------------------
(* ApplicationProfile.restore *)

\* Path.relative_to(home_folder) raises for a path that is not under $HOME
UnderHome(p) == p[1] = "home" \/ (p[1] = "mackup" /\ mackupInHome)

pointing_to_mackup(f, mackup, home) ==
    /\ islink(f, home)
    /\ exists(f, mackup)
    /\ samefile(f, mackup, home)

\* os.path.samefile raises for a path that leads nowhere
SamefileRaises(f, mackup, home) ==
    /\ islink(f, home)
    /\ exists(f, mackup)
    /\ ~exists(f, home)

\* RestoreNeeded without the platform check
RestoreNeededAnywhere(f, mackup, home, supported) ==
    /\ isfile(f, mackup) \/ isdir(f, mackup)
    /\ ~pointing_to_mackup(f, mackup, home)

RestoreNeeded(f, mackup, home, supported) ==
    /\ isfile(f, mackup) \/ isdir(f, mackup)
    /\ ~pointing_to_mackup(f, mackup, home)
    /\ supported

\* RestoreStep that replaces what is at home without asking
RestoreStepNoQuestion(f, mackup, home, supported) ==
    IF SamefileRaises(f, mackup, home) \/ ~UnderHome(home) THEN "raise"
    ELSE IF ~RestoreNeeded(f, mackup, home, supported) THEN "nothing"
    ELSE IF dry_run THEN "dry"
    ELSE "restore_file"

\* where restore() goes with one entry
RestoreStep(f, mackup, home, supported) ==
    IF SamefileRaises(f, mackup, home) \/ ~UnderHome(home) THEN "raise"
    ELSE IF ~RestoreNeeded(f, mackup, home, supported) THEN "nothing"
    ELSE IF dry_run THEN "dry"
    ELSE IF exists(f, home)
         THEN IF file_type(f, home) = "" THEN "raise" ELSE "confirm"
    ELSE "restore_file"

\* utils.can_file_be_synced_on_current_platform: an answer that never changes
Answer(supported) == IF supported THEN "yes" ELSE "no"

CanSync(p, supported) ==
    /\ p \in Paths
    /\ syncable[p] \in {"unknown", Answer(supported)}

restore == StartRun("restore", "mackup", "home")

restore_entry ==
    /\ AtEntry("restore", "loop")
    /\ LET e == files[i]
       IN  \E supported \in BOOLEAN :
             LET step == RestoreStep(fs, e.src, e.dst, supported)
                 asked == ~SamefileRaises(fs, e.src, e.dst) /\ UnderHome(e.dst)
             IN  /\ asked => CanSync(e.dst, supported)
                 /\ ~asked => supported
                 /\ syncable' = IF asked
                                THEN [syncable EXCEPT ![e.dst] = Answer(supported)]
                                ELSE syncable
                 /\ CASE step = "nothing" -> Continue(Say(Nothing(fs, e.dst), e))
                      [] step = "dry" -> Continue(Say("acting", e))
                      [] step = "raise" /\ ~asked -> Raise(e, <<>>)
                      [] step = "raise" /\ asked -> Raise(e, Say("acting", e))
                      [] step = "confirm" -> Goto("confirm", Say("acting", e))
                      [] step = "restore_file" ->
                             IF ValidStrategy THEN Goto("copy", Say("acting", e))
                             ELSE Raise(e, Say("acting", e))
    /\ UNCHANGED <<fs, config, op, files, fsStart, runs, prev>>

\* utils.confirm(...) and the branch on its answer
restore_confirm(yes) ==
    /\ AtEntry("restore", "confirm")
    /\ IF yes THEN Goto("delete", Say("yes", files[i]))
       ELSE Continue(Say("no", files[i]))
    /\ UNCHANGED fs
    /\ Frame

\* utils.delete(home_filepath), then the call of restore_file
restore_delete ==
    /\ AtEntry("restore", "delete")
    /\ fs' = Delete(fs, files[i].dst)
    /\ LET e == files[i]
       IN  IF ValidStrategy THEN Goto("copy", Did("delete", e, e.dst, NoPath))
           ELSE Raise(e, Did("delete", e, e.dst, NoPath))
    /\ Frame

\* restore_file that copies under every strategy
restore_file_copies ==
    /\ AtEntry("restore", "copy")
    /\ LET e == files[i]
       IN  IF CopyFails(fs, e.src, e.dst)
           THEN Raise(e, <<>>) /\ UNCHANGED fs
           ELSE /\ fs' = Copy(fs, e.src, e.dst)
                /\ Continue(Did("copy", e, e.src, e.dst))
    /\ Frame

\* restore_file: utils.link or utils.copy (mackup_filepath, home_filepath)
restore_file ==
    /\ AtEntry("restore", "copy")
    /\ LET e == files[i]
       IN  IF strategy = "link"
           THEN IF LinkFails(fs, e.src, e.dst)
                THEN Raise(e, <<>>) /\ UNCHANGED fs
                ELSE /\ fs' = Link(fs, e.src, e.dst)
                     /\ Continue(Did("link", e, e.src, e.dst))
           ELSE IF CopyFails(fs, e.src, e.dst)
                THEN Raise(e, <<>>) /\ UNCHANGED fs
                ELSE /\ fs' = Copy(fs, e.src, e.dst)
                     /\ Continue(Did("copy", e, e.src, e.dst))
    /\ Frame

----------------------------------------------------------------------------
(* ApplicationProfile.uninstall *)

\* where uninstall() goes with one entry
UninstallStep(f, mackup, home) ==
    IF ~(isfile(f, mackup) \/ isdir(f, mackup)) THEN "nothing"
    ELSE IF ~exists(f, home) THEN "skip"
    ELSE IF dry_run THEN "dry"
    ELSE "revert"

uninstall == StartRun("uninstall", "mackup", "home")

uninstall_entry ==
    /\ AtEntry("uninstall", "loop")
    /\ LET e == files[i]
           step == UninstallStep(fs, e.src, e.dst)
       IN  CASE step = "nothing" -> Continue(Say("absent", e))
             [] step = "skip" -> Continue(<<>>)
             [] step = "dry" -> Continue(Say("acting", e))
             [] step = "revert" -> Goto("delete", Say("acting", e))
    /\ UNCHANGED fs
    /\ Frame

\* utils.delete(home_filepath)
uninstall_delete ==
    /\ AtEntry("uninstall", "delete")
    /\ fs' = Delete(fs, files[i].dst)
    /\ Goto("copy", Did("delete", files[i], files[i].dst, NoPath))
    /\ Frame

\* utils.copy(mackup_filepath, home_filepath)
uninstall_copy ==
    /\ AtEntry("uninstall", "copy")
    /\ LET e == files[i]
       IN  IF CopyFails(fs, e.src, e.dst)
           THEN Raise(e, <<>>) /\ UNCHANGED fs
           ELSE /\ fs' = Copy(fs, e.src, e.dst)
                /\ Continue(Did("copy", e, e.src, e.dst))
    /\ Frame

----------------------------------------------------------------------------
\* the loop of the running method has no entry left: the method returns
finish ==
    /\ pc = "loop"
    /\ i > Len(files)
    /\ pc' = "done"
    /\ UNCHANGED <<fs, syncable, config, op, files, i, log, fsStart, runs, prev>>

\* the user moves to a new machine: the shared folder is kept, home is empty
fresh_home ==
    /\ pc \in {"done", "aborted"}
    /\ fs' = [p \in Paths |-> IF p[1] = "home" THEN Absent ELSE fs[p]]
    /\ pc' = "fresh"
    /\ UNCHANGED <<syncable, config, op, files, i, log, fsStart, runs, prev>>

----------------------------------------------------------------------------
(* the states a call can start from *)

HomeNodes(n) == {Absent, File(HomePath(n)), Dir(HomePath(n)), Special,
                 Symlink(MackupPath(n)), Symlink(Elsewhere)}

MackupNodes(n) == {Absent, File(MackupPath(n)), Dir(MackupPath(n)), Special}

\* the second entry takes fewer shapes than the first
FewHomeNodes(n) == {Absent, File(HomePath(n)), Symlink(MackupPath(n))}

FewMackupNodes(n) == {Absent, File(MackupPath(n))}

Filesystems ==
    {f \in [Paths -> UNION {HomeNodes(n) \cup MackupNodes(n) : n \in Names}
                       \cup {File(Elsewhere)}] :
        /\ f[HomePath("a")] \in HomeNodes("a")
        /\ f[MackupPath("a")] \in MackupNodes("a")
        /\ f[HomePath("b")] \in FewHomeNodes("b")
        /\ f[MackupPath("b")] \in FewMackupNodes("b")
        /\ f[Elsewhere] \in {Absent, File(Elsewhere)}}

InitProfile ==
    /\ mackupInHome \in BOOLEAN
    /\ dry_run \in BOOLEAN
    /\ strategy \in {"link", "copy", "move"}
    /\ enable_glob \in BOOLEAN
    /\ syncable = [p \in Paths |-> "unknown"]
    /\ op = "none"
    /\ files = <<>>
    /\ i = 1
    /\ pc = "ready"
    /\ log = <<>>
    /\ fsStart = fs
    /\ prev = [op |-> "none", acted |-> {}, fs |-> fs, fresh |-> FALSE]

\* one call, the last of a session, from any filesystem
Init ==
    /\ fs \in Filesystems
    /\ runs = MaxRuns - 1
    /\ InitProfile

\* a session of up to MaxRuns calls from a home that was never backed up
InitSeq ==
    /\ fs \in {f \in Filesystems :
                 /\ f[HomePath("a")].kind \in {"file", "dir"}
                 /\ f[MackupPath("a")].kind \in {"absent", "file"}
                 /\ f[HomePath("b")].kind \in {"file", "absent"}
                 /\ f[MackupPath("b")].kind = "absent"
                 /\ f[Elsewhere].kind = "file"}
    /\ runs = 0
    /\ InitProfile

Next ==
    \/ backup
    \/ backup_entry
    \/ \E yes \in BOOLEAN : backup_confirm(yes)
    \/ backup_delete
    \/ backup_file_copy
    \/ backup_file_delete
    \/ backup_file_link
    \/ restore
    \/ restore_entry
    \/ \E yes \in BOOLEAN : restore_confirm(yes)
    \/ restore_delete
    \/ restore_file
    \/ uninstall
    \/ uninstall_entry
    \/ uninstall_delete
    \/ uninstall_copy
    \/ finish
    \/ fresh_home

Spec == Init /\ [][Next]_vars

SpecSeq == InitSeq /\ [][Next]_vars

----------------------------------------------------------------------------
(* what a run did, read off its log *)

Effects == {"delete", "copy", "link"}
Answers == {"yes", "no"}
Reports == {"acting", "already", "broken", "absent"}

\* the log entries about the tracked file n whose kind is in kinds
EventsFor(n, kinds) == {k \in 1..Len(log) : log[k].name = n /\ log[k].ev \in kinds}

\* no question was asked about n and no copy, delete or link was made for it
Untouched(n) == EventsFor(n, Effects \cup Answers) = {}

\* the tracked paths of n are as the run found them
Unchanged(n) ==
    /\ fs[HomePath(n)] = fsStart[HomePath(n)]
    /\ fs[MackupPath(n)] = fsStart[MackupPath(n)]

\* the loop of the current run is over with n
Passed(n) == \E k \in 1..Len(files) : files[k].name = n /\ k < i

\* a call is running or has just ended, home not replaced since
InRun(method) == op = method /\ pc \notin {"ready", "fresh"}

Regular(node) == node.kind \in {"file", "dir"}

\* home is a link that leads to the existing shared copy
LinkedToMackup(f, n) ==
    /\ f[HomePath(n)].kind = "link"
    /\ exists(f, MackupPath(n))
    /\ samefile(f, HomePath(n), MackupPath(n))

----------------------------------------------------------------------------
\* C1: a backup() that follows a backup() of the same profile (strategy link,
\* no dry run, nothing edited in between) asks nothing and copies, deletes
\* and links nothing for the entries the first one backed up from a regular
\* file or directory, leaves their home and shared paths as they are, and
\* reports them as already backed up.
C1_SecondBackupDoesNothing ==
    (InRun("backup") /\ prev.op = "backup" /\ ~prev.fresh
        /\ strategy = "link" /\ ~dry_run)
    => \A n \in prev.acted :
          Regular(prev.fs[HomePath(n)])
          => /\ Untouched(n)
             /\ Unchanged(n)
             /\ Passed(n) => EventsFor(n, {"already"}) # {}

\* C2: with dry_run enabled no call of backup(), restore() or uninstall()
\* asks for a confirmation or copies, deletes or links anything, and the
\* filesystem stays what it was when the call started.
C2_DryRunPure ==
    (dry_run /\ pc # "fresh")
    => /\ fs = fsStart
       /\ \A k \in 1..Len(log) : log[k].ev \notin Effects \cup Answers

\* a dry run of backup() that decided to back an entry up whose shared copy
\* exists, and went through the whole list
C2_Witness ==
    /\ dry_run
    /\ op = "backup"
    /\ pc = "done"
    /\ \E k \in 1..Len(log) : log[k].ev = "acting" /\ exists(fs, log[k].q)

\* C3: in backup() and in restore(), an entry whose confirmation the user
\* declined has neither its home path nor its shared path modified, and no
\* copy, delete or link is made for it.
C3_DeclineChangesNothing ==
    (op \in {"backup", "restore"} /\ pc # "fresh")
    => \A k \in 1..Len(log) :
          log[k].ev = "no"
          => /\ EventsFor(log[k].name, Effects) = {}
             /\ Unchanged(log[k].name)
             /\ fs[log[k].p] = fsStart[log[k].p]
             /\ fs[log[k].q] = fsStart[log[k].q]

\* backup() found a shared copy in the way of a regular home file, the user
\* declined, and the run went on to its end
C3_Witness ==
    /\ op = "backup"
    /\ pc = "done"
    /\ \E k \in 1..Len(log) :
          /\ log[k].ev = "no"
          /\ Regular(fs[HomePath(log[k].name)])
          /\ Regular(fs[MackupPath(log[k].name)])

\* the entries a restore() on a fresh home follows a backup() of
BackedUpThenFresh(n) ==
    /\ InRun("restore")
    /\ prev.op = "backup"
    /\ prev.fresh
    /\ strategy = "link"
    /\ ~dry_run
    /\ n \in prev.acted
    /\ Regular(prev.fs[HomePath(n)])
    /\ Passed(n)

RestoredAsLink(n) ==
    /\ fs[HomePath(n)].kind = "link"
    /\ samefile(fs, HomePath(n), MackupPath(n))
    /\ Regular(fs[MackupPath(n)])
    /\ ContentAt(fs, MackupPath(n)) = prev.fs[HomePath(n)].content
    /\ EventsFor(n, Answers) = {}

\* C4 as stated: backup() of a regular home file with strategy link, then
\* restore() on a fresh home, ends with home a link to the shared file that
\* holds the original content, no confirmation asked.
C4_BackupRestoreInverse ==
    \A n \in Names : BackedUpThenFresh(n) => RestoredAsLink(n)

\* C4 amended: the same, for the entries whose home-relative path the
\* platform-support predicate accepts.
C4_BackupRestoreInverseSupported ==
    \A n \in Names :
        (BackedUpThenFresh(n) /\ syncable[HomePath(n)] = "yes") => RestoredAsLink(n)

\* backup() of the regular file a, a fresh home, and a restore() run to its
\* end that linked a again
C4_Witness ==
    /\ BackedUpThenFresh("a")
    /\ syncable[HomePath("a")] = "yes"
    /\ pc = "done"
    /\ prev.fs[HomePath("a")].kind = "file"
    /\ EventsFor("a", {"link"}) # {}

\* C5: with strategy copy, once backup() is over with an entry that was a
\* regular file or directory at home (the shared copy absent, or present and
\* the overwrite confirmed), home is the same regular file or directory and
\* the shared path holds a copy of its own with the same content.
C5_CopyKeepsHome ==
    (InRun("backup") /\ strategy = "copy" /\ ~dry_run)
    => \A n \in Names :
          (Passed(n) /\ Regular(fsStart[HomePath(n)]) /\ EventsFor(n, {"no"}) = {})
          => /\ fs[HomePath(n)] = fsStart[HomePath(n)]
             /\ fs[MackupPath(n)].kind = fsStart[HomePath(n)].kind
             /\ fs[MackupPath(n)].content = fsStart[HomePath(n)].content

\* a backup() with strategy copy that replaced an existing shared copy of a
\* after the user agreed
C5_Witness ==
    /\ InRun("backup")
    /\ strategy = "copy"
    /\ pc = "done"
    /\ Regular(fsStart[HomePath("a")])
    /\ Regular(fsStart[MackupPath("a")])
    /\ EventsFor("a", {"yes"}) # {}
    /\ EventsFor("a", {"copy"}) # {}

\* C6: after an uninstall() that is no dry run, every entry whose shared copy
\* is a file or directory has an ordinary copy of it at home, whether home
\* existed before or not.
C6_UninstallLeavesCopies ==
    (InRun("uninstall") /\ ~dry_run /\ pc = "done")
    => \A n \in Names :
          (Passed(n) /\ Regular(fsStart[MackupPath(n)]))
          => /\ fs[HomePath(n)].kind = fsStart[MackupPath(n)].kind
             /\ fs[HomePath(n)].content = fsStart[MackupPath(n)].content

\* C7: with strategy link, once backup() is over with an entry that was a
\* regular file or directory at home (the shared path absent, or present and
\* the overwrite confirmed), the shared path holds what home held and home is
\* a link that leads to it.
C7_LinkBackupResult ==
    (InRun("backup") /\ strategy = "link" /\ ~dry_run)
    => \A n \in Names :
          (Passed(n) /\ Regular(fsStart[HomePath(n)]) /\ EventsFor(n, {"no"}) = {})
          => /\ fs[MackupPath(n)].kind = fsStart[HomePath(n)].kind
             /\ fs[MackupPath(n)].content = fsStart[HomePath(n)].content
             /\ fs[HomePath(n)] = Symlink(MackupPath(n))

\* a backup() with strategy link that replaced an existing shared copy of a
\* (last writer wins) and one that found none for b
C7_Witness ==
    /\ InRun("backup")
    /\ strategy = "link"
    /\ pc = "done"
    /\ fsStart[HomePath("a")].kind = "dir"
    /\ fsStart[MackupPath("a")].kind = "file"
    /\ EventsFor("a", {"yes"}) # {}
    /\ fs[MackupPath("a")].content = HomePath("a")
    /\ fsStart[HomePath("b")].kind = "file"
    /\ fsStart[MackupPath("b")].kind = "absent"
    /\ fs[HomePath("b")].kind = "link"

\* C8: restore() asks nothing and deletes, links and copies nothing for an
\* entry whose home is a link that leads to the existing shared copy.
C8_RestoreLeavesLinked ==
    InRun("restore")
    => \A n \in Names : LinkedToMackup(fsStart, n) => Untouched(n)

SpecialAt(f, p) == NodeAt(f, p).kind = "special"

\* C10 as stated: backup() and restore() never get past an entry one of whose
\* paths is a special node.
C10_SpecialNodeAborts ==
    (op \in {"backup", "restore"} /\ pc # "fresh")
    => \A k \in 1..Len(files) :
          (SpecialAt(fsStart, files[k].src) \/ SpecialAt(fsStart, files[k].dst))
          => ~(k < i)

\* the one entry a run has to replace a special node for
MustReplaceSpecial(k) ==
    /\ ~dry_run
    /\ SpecialAt(fsStart, files[k].dst)
    /\ \/ op = "backup" /\ BackupNeeded(fsStart, files[k].src, files[k].dst)
       \/ /\ op = "restore"
          /\ RestoreNeeded(fsStart, files[k].src, files[k].dst, TRUE)
          /\ syncable[files[k].dst] # "no"

\* C10 amended: a backup() or restore() that is no dry run and has an entry
\* to act on whose destination (the shared path in backup, the home path in
\* restore) is a special node aborts at that entry: it asks nothing and
\* changes nothing for it and processes no later entry.
C10_SpecialDestinationAborts ==
    (op \in {"backup", "restore"} /\ pc # "fresh")
    => \A k \in 1..Len(files) :
          MustReplaceSpecial(k)
          => /\ i <= k
             /\ (i = k => pc \in {"loop", "aborted"})
             /\ Untouched(files[k].name)
             /\ Unchanged(files[k].name)
             /\ \A j \in 1..Len(files) : j > k => EventsFor(files[j].name, Reports \cup Effects \cup Answers) = {}

\* backup() aborted at a, whose shared path is a special node, with b left
\* to back up
C10_Witness ==
    /\ op = "backup"
    /\ pc = "aborted"
    /\ i = 1
    /\ Len(files) = 2
    /\ MustReplaceSpecial(1)
    /\ BackupNeeded(fs, files[2].src, files[2].dst)
    /\ log[Len(log)].ev = "raise"

----------------------------------------------------------------------------
(* what a dry run reports *)

\* the decision a run with dry_run on reports for entry e on the filesystem
\* f: "acting", a "Doing nothing" line, "raise", or "none" when it prints
\* nothing (backup: lines 89-104 and 129-145; restore: 183-206 and 229-246;
\* uninstall: 280-293 and 301-302)
DryDecision(method, f, e, supported) ==
    CASE method = "backup" ->
            IF BackupNeeded(f, e.src, e.dst) THEN "acting" ELSE Nothing(f, e.src)
      [] method = "restore" ->
            IF SamefileRaises(f, e.src, e.dst) \/ ~UnderHome(e.dst) THEN "raise"
            ELSE IF RestoreNeeded(f, e.src, e.dst, supported) THEN "acting"
            ELSE Nothing(f, e.dst)
      [] method = "uninstall" ->
            IF ~(isfile(f, e.src) \/ isdir(f, e.src)) THEN "absent"
            ELSE IF exists(f, e.dst) THEN "acting"
            ELSE "none"
      [] OTHER -> "none"

\* what a dry run from the filesystem the current run started from reports
\* for the k-th entry
DryReport(k) ==
    DryDecision(op, fsStart, files[k], syncable[files[k].dst] # "no")

\* the line the current run printed about n, "none" if it printed none
Printed(n) ==
    IF EventsFor(n, Reports) = {} THEN "none"
    ELSE log[CHOOSE k \in EventsFor(n, Reports) : TRUE].ev

\* the decision the current run reported for n
RealDecision(n) ==
    IF EventsFor(n, {"raise"}) # {} THEN "raise" ELSE Printed(n)

\* the current run has looked at its k-th entry
Classified(k) == k < i \/ (k = i /\ pc # "loop")

Ended == pc \in {"done", "aborted"}

Place(ev) == CHOOSE k \in 1..Len(files) : files[k].name = ev.name

\* C12: in backup() and restore(), after the user declined the confirmation
\* for an entry the run has not aborted and the loop is past that entry, ready
\* to take the next one; every later entry it has looked at is reported as a
\* run from the same filesystem without the question would report it, and
\* the log follows the order of the list.
C12_DeclineGoesOn ==
    (op \in {"backup", "restore"} /\ pc \notin {"ready", "fresh"})
    => \A k \in 1..Len(files) :
          EventsFor(files[k].name, {"no"}) # {}
          => /\ i > k
             /\ EventsFor(files[k].name, {"raise"}) = {}
             /\ (pc = "loop" /\ i <= Len(files))
                    => ENABLED (backup_entry \/ restore_entry)
             /\ (pc = "loop" /\ i > Len(files)) => ENABLED finish
             /\ \A j \in 1..Len(files) :
                    (j > k /\ Classified(j))
                    => Printed(files[j].name) \in {DryReport(j), "none"}
             /\ \A x, y \in 1..Len(log) :
                    x < y => Place(log[x]) <= Place(log[y])

\* backup() was declined the replacement of the shared copy of a and went on
\* to back up and link b
C12_Witness ==
    /\ InRun("backup")
    /\ pc = "done"
    /\ EventsFor("a", {"no"}) # {}
    /\ Regular(fsStart[HomePath("b")])
    /\ EventsFor("b", {"acting"}) # {}
    /\ EventsFor("b", {"link"}) # {}
    /\ fs[HomePath("b")] = Symlink(MackupPath("b"))

\* home is a link whose target does not exist
BrokenLink(f, n) == f[HomePath(n)].kind = "link" /\ ~exists(f, HomePath(n))

\* C13: backup() asks nothing and copies, deletes and links nothing for an
\* entry whose home path is a broken link, and reports it as a broken link,
\* not as absent and not as already backed up.
C13_BrokenLinkReported ==
    InRun("backup")
    => \A n \in Names :
          (BrokenLink(fsStart, n) /\ Passed(n))
          => /\ Untouched(n)
             /\ Printed(n) = "broken"

\* C14: in backup() and restore(), a node that was at the destination path of
\* an entry (the shared path in backup, the home path in restore) when the
\* run started is deleted, written by a copy or replaced by a link only after
\* the confirmation for that entry was answered yes; while there is no such
\* answer the destination is what it was.
C14_ConfirmBeforeDestroy ==
    (op \in {"backup", "restore"} /\ pc \notin {"ready", "fresh"})
    => \A k \in 1..Len(files) :
          lexists(fsStart, files[k].dst)
          => /\ \A x \in EventsFor(files[k].name, Effects) :
                    files[k].dst \in {log[x].p, log[x].q}
                    => \E y \in EventsFor(files[k].name, {"yes"}) : y < x
             /\ EventsFor(files[k].name, {"yes"}) = {}
                    => fs[files[k].dst] = fsStart[files[k].dst]

\* restore() deleted the regular file at home/a and linked the shared copy in
\* its place after the user said yes
C14_Witness ==
    /\ InRun("restore")
    /\ strategy = "link"
    /\ pc = "done"
    /\ fsStart[HomePath("a")].kind = "file"
    /\ EventsFor("a", {"yes"}) # {}
    /\ \E x \in EventsFor("a", {"delete"}) : log[x].p = HomePath("a")
    /\ fs[HomePath("a")] = Symlink(MackupPath("a"))

\* the roots get_files() was called with by the current run
SourceRoot == IF op = "backup" THEN "home" ELSE "mackup"
TargetRoot == IF op = "backup" THEN "mackup" ELSE "home"

\* the path lies under the root
Under(p, root) == p[1] = root \/ (root = "home" /\ UnderHome(p))

\* the home-side path of an entry
HomeSide(e) == IF op = "backup" THEN e.src ELSE e.dst

\* C15: every entry get_files(source, target) returned has its source path
\* under the source root, its target path under the target root and a name
\* that is not empty; its home-side path is no path inside the shared folder
\* and its two paths differ.
C15_EntriesInsideRoots ==
    op # "none"
    => \A k \in 1..Len(files) :
          /\ Under(files[k].src, SourceRoot)
          /\ Under(files[k].dst, TargetRoot)
          /\ files[k].name # ""
          /\ HomeSide(files[k])[1] # "mackup"
          /\ files[k].src # files[k].dst

\* C16: in every state of a backup(), between any two of its deletes, copies
\* and links, what a tracked entry held at home when the run started is held
\* at its home path or at its shared path.
C16_BackupKeepsContent ==
    InRun("backup")
    => \A n \in Names :
          ContentAt(fsStart, HomePath(n)) # NoPath
          => \/ ContentAt(fs, HomePath(n)) = ContentAt(fsStart, HomePath(n))
             \/ ContentAt(fs, MackupPath(n)) = ContentAt(fsStart, HomePath(n))

\* C17: restore() and uninstall() delete, create and change no path inside
\* the shared folder: every delete, copy destination and link they make is
\* at a home-side path.
C17_SharedFolderReadOnly ==
    (InRun("restore") \/ InRun("uninstall"))
    => /\ \A n \in Names : fs[MackupPath(n)] = fsStart[MackupPath(n)]
       /\ \A k \in 1..Len(log) :
             /\ log[k].ev = "delete" => log[k].p[1] = "home"
             /\ log[k].ev \in {"copy", "link"} => log[k].q[1] = "home"

\* C18: a backup() or restore() that is no dry run, on a profile whose
\* strategy is neither link nor copy, leaves the filesystem as it found it,
\* and ends in an error once it has an entry to act on.
C18_InvalidStrategyHarmless ==
    (op \in {"backup", "restore"} /\ pc \notin {"ready", "fresh"}
        /\ ~ValidStrategy /\ ~dry_run)
    => /\ fs = fsStart
       /\ \A k \in 1..Len(log) : log[k].ev \notin Effects
       /\ (\E k \in 1..Len(log) : log[k].ev = "yes") => pc # "done"

====
